---- MODULE Spec2Model ----
(***************************************************************************)
(* Model of Script5.0.py: the update check run at import, the lag          *)
(* correlation sweep compute_lag_correlations, and the analysis request    *)
(* MainWindow.plot_data that merges the two series, calls the sweep and    *)
(* selects the optimal lag with max(correlations, key=correlations.get).   *)
(*                                                                         *)
(* Numbers: series values are small integers, a missing cell is NaN.  A    *)
(* Pearson coefficient r is kept exactly, as <<sign(r), p, q>> with        *)
(* r^2 = p/q in lowest terms; the undefined coefficient is NaN.  Floating  *)
(* point rounding of the library is not modelled.                          *)
(***************************************************************************)
EXTENDS Integers, Sequences, FiniteSets, TLC

VARIABLES pc, files, latest_version, update_result, selected_stock, df_given,
          df_merged, max_lag, correlations, optimal_lag, optimal_corr, raised,
          requests

vars == <<pc, files, latest_version, update_result, selected_stock, df_given,
          df_merged, max_lag, correlations, optimal_lag, optimal_corr, raised,
          requests>>

\* ------------------------------------------------------------------ bounds
MaxLen == 3
MaxSelectLen == 4
MaxShiftLen == 5
MaxLag == 3
MaxRequests == 2
MaxDate == 2
MaxComponents == 3
MaxDigits == 2

\* ------------------------------------------------------------- values, NaN
NaN == <<>>
Cell(v) == <<v>>
Val(c) == c[1]
Values == {1, 2}
Cells == {NaN} \cup {Cell(v) : v \in Values}
None == "None"

RECURSIVE GCD(_, _)
GCD(a, b) == IF b = 0 THEN a ELSE GCD(b, a % b)

RECURSIVE SumSeq(_)
SumSeq(s) == IF s = <<>> THEN 0 ELSE Head(s) + SumSeq(Tail(s))

\* --------------------------------------------------------------- frames
\* A frame is [index |-> timestamps, cols |-> column name -> cells].
Frame(idx, m2, asset, assetName) ==
    [index |-> idx,
     cols |-> [c \in {"close_m2", assetName} |->
                 IF c = "close_m2" THEN m2 ELSE asset]]

HasColumn(df, c) == c \in DOMAIN df.cols

\* Series.shift(periods): row i takes the value of row i - periods; rows that
\* fall off the end become NaN.
shift(s, periods) ==
    [i \in 1..Len(s) |->
        IF (i - periods) \in 1..Len(s) THEN s[i - periods] ELSE NaN]

\* pd.concat([a, b], axis=1) of two columns over the same index.
concat(a, b) == [i \in 1..Len(a) |-> <<a[i], b[i]>>]

\* DataFrame.dropna(): keep the rows with no missing cell.
notna(row) == row[1] # NaN /\ row[2] # NaN
dropna(rows) == SelectSeq(rows, notna)

\* `not aligned.empty` tests this.
empty_mut(rows) == Len(rows) <= 1
empty(rows) == Len(rows) = 0

\* Series.corr (Pearson) over the aligned rows, exactly.
corr(rows) ==
    LET n   == Len(rows)
        xs  == [i \in 1..n |-> Val(rows[i][1])]
        ys  == [i \in 1..n |-> Val(rows[i][2])]
        sx  == SumSeq(xs)
        sy  == SumSeq(ys)
        sxy == n * SumSeq([i \in 1..n |-> xs[i] * ys[i]]) - sx * sy
        sxx == n * SumSeq([i \in 1..n |-> xs[i] * xs[i]]) - sx * sx
        syy == n * SumSeq([i \in 1..n |-> ys[i] * ys[i]]) - sy * sy
        num == sxy * sxy
        den == sxx * syy
        g   == GCD(num, den)
    IN  IF den = 0 THEN NaN
        ELSE IF sxy = 0 THEN <<0, 0, 1>>
        ELSE <<IF sxy > 0 THEN 1 ELSE -1, num \div g, den \div g>>

\* Float comparison a > b; every comparison with NaN is False.
Key(c) == c[1] * c[2]
GT(a, b) == a # NaN /\ b # NaN /\ Key(a) * b[3] > Key(b) * a[3]

\* Lines 70-71: the rows correlated at one lag.
aligned_rows_mut(df, lag) ==
    LET shifted_btc == shift(df.cols["close_btc"], lag)
    IN  dropna(concat(df.cols["close_m2"], shifted_btc))
aligned_rows(df, lag) ==
    LET shifted_btc == shift(df.cols["close_btc"], -lag)
    IN  dropna(concat(df.cols["close_m2"], shifted_btc))

\* compute_lag_correlations.  The dict is a sequence of [lag, corr] entries in
\* insertion order.  The result records an exception instead of a value when
\* the column lookup of line 70 raises.
first_lag == 1

RECURSIVE lag_loop(_, _, _, _)
lag_loop(df, lag, maxLag, acc) ==
    IF lag > maxLag THEN [raised |-> None, value |-> acc]
    ELSE IF ~HasColumn(df, "close_btc") \/ ~HasColumn(df, "close_m2")
         THEN [raised |-> "KeyError", value |-> <<>>]
    ELSE LET aligned == aligned_rows(df, lag)
         IN  IF ~empty(aligned)
             THEN lag_loop(df, lag + 1, maxLag,
                           Append(acc, [lag |-> lag, corr |-> corr(aligned)]))
             ELSE lag_loop(df, lag + 1, maxLag, acc)

compute_lag_correlations(df, maxLag) == lag_loop(df, first_lag, maxLag, <<>>)

\* The frame the caller holds after the call: the function only reads it
\* (shift, concat and dropna build new objects).
frame_after_call_mut(df, maxLag) ==
    IF maxLag >= 1 /\ HasColumn(df, "close_btc")
    THEN [df EXCEPT !.cols["close_btc"] = shift(@, -1)]
    ELSE df
frame_after_call(df, maxLag) == df

\* max(correlations, key=correlations.get): scan in dict order, replace the
\* running maximum only when key(item) > key(maximum).
RECURSIVE max_scan(_, _, _)
max_scan(entries, i, best) ==
    IF i > Len(entries) THEN best
    ELSE IF GT(entries[i].corr, best.corr) THEN max_scan(entries, i + 1, entries[i])
    ELSE max_scan(entries, i + 1, best)

select_optimal(entries) ==
    IF entries = <<>> THEN [raised |-> "ValueError", value |-> None]
    ELSE [raised |-> None, value |-> max_scan(entries, 2, entries[1])]

Keys(entries) == {entries[i].lag : i \in 1..Len(entries)}
Get(entries, k) == entries[CHOOSE i \in 1..Len(entries) : entries[i].lag = k].corr

\* ------------------------------------------------- the analysis pipeline
\* The steps of one analysis request after the frame is built: line 139 (the
\* call) and lines 140-141 (the selection).
Call ==
    /\ pc = "merged"
    /\ LET r == compute_lag_correlations(df_merged, max_lag)
       IN  /\ df_merged' = frame_after_call(df_merged, max_lag)
           /\ IF r.raised = None
              THEN /\ correlations' = r.value
                   /\ raised' = None
                   /\ pc' = "computed"
              ELSE /\ correlations' = None
                   /\ raised' = r.raised
                   /\ pc' = "failed"
    /\ UNCHANGED <<files, latest_version, update_result, selected_stock, df_given, max_lag,
                   optimal_lag, optimal_corr, requests>>

Select ==
    /\ pc = "computed"
    /\ LET r == select_optimal(correlations)
       IN  IF r.raised = None
           THEN /\ optimal_lag' = r.value.lag
                /\ optimal_corr' = r.value.corr
                /\ raised' = None
                /\ pc' = "selected"
           ELSE /\ optimal_lag' = None
                /\ optimal_corr' = None
                /\ raised' = r.raised
                /\ pc' = "failed"
    /\ UNCHANGED <<files, latest_version, update_result, selected_stock, df_given, df_merged,
                   max_lag, correlations, requests>>

\* A further request by the same caller with the frame it still holds.
Again ==
    /\ pc \in {"selected", "failed"}
    /\ requests < MaxRequests
    /\ requests' = requests + 1
    /\ pc' = "merged"
    /\ correlations' = None
    /\ optimal_lag' = None
    /\ optimal_corr' = None
    /\ raised' = None
    /\ UNCHANGED <<files, latest_version, update_result, selected_stock, df_given, df_merged,
                   max_lag>>

\* ------------------------------------------------------- loading, merging
\* A CSV file is a set of rows, each a function from column name to value,
\* with one row per date.

RECURSIVE sort_values(_, _)
sort_values(rows, date_col) ==
    IF rows = {} THEN <<>>
    ELSE LET first == CHOOSE r \in rows : \A q \in rows : r[date_col] <= q[date_col]
         IN  <<first>> \o sort_values(rows \ {first}, date_col)

\* load_and_filter_csv: sort by the date column, index by it, keep one column.
load_and_filter_csv(rows, date_col, value_col) ==
    LET sorted == sort_values(rows, date_col)
    IN  [index |-> [i \in 1..Len(sorted) |-> sorted[i][date_col]],
         cols  |-> [c \in {value_col} |->
                       [i \in 1..Len(sorted) |-> sorted[i][value_col]]]]

\* The positions of the index whose label is in a set, in order.
RECURSIVE positions(_, _, _)
positions(idx, i, keep) ==
    IF i > Len(idx) THEN <<>>
    ELSE (IF idx[i] \in keep THEN <<i>> ELSE <<>>) \o positions(idx, i + 1, keep)

take(df, pos) ==
    [index |-> [i \in 1..Len(pos) |-> df.index[pos[i]]],
     cols  |-> [c \in DOMAIN df.cols |->
                   [i \in 1..Len(pos) |-> df.cols[c][pos[i]]]]]

\* df.loc[start:end] on a sorted index: both ends inclusive.
loc(df, start, end) ==
    take(df, positions(df.index, 1, {t \in Int : start <= t /\ t <= end}))

\* df.rename(columns={old: new}).
rename(df, old, new) ==
    [index |-> df.index,
     cols  |-> [c \in (DOMAIN df.cols \ {old}) \cup {new} |->
                   IF c = new THEN df.cols[old] ELSE df.cols[c]]]

\* pd.merge(left, right, left_index=True, right_index=True, how='inner').
merge(left, right) ==
    LET common == {right.index[j] : j \in 1..Len(right.index)}
        lpos == positions(left.index, 1, common)
        rpos == [i \in 1..Len(lpos) |->
                   CHOOSE j \in 1..Len(right.index) :
                       right.index[j] = left.index[lpos[i]]]
        l == take(left, lpos)
        r == take(right, rpos)
    IN  [index |-> l.index,
         cols  |-> [c \in DOMAIN l.cols \cup DOMAIN r.cols |->
                       IF c \in DOMAIN l.cols THEN l.cols[c] ELSE r.cols[c]]]

\* ------------------------------------------------------------ the window
STOCKS ==
    [s \in {"Bitcoin (BTC)", "Ethereum (ETH)", "S&P 500", "Gold (XAU)"} |->
        CASE s = "Bitcoin (BTC)"  -> "BTC.csv"
          [] s = "Ethereum (ETH)" -> "ETH.csv"
          [] s = "S&P 500"        -> "SP500.csv"
          [] s = "Gold (XAU)"     -> "GOLD.csv"]
FILE_M2 == "Global M2.csv"
MAX_LAG == 180
start_date == 1
end_date == MaxDate

\* Lines 130-137 of plot_data: the merged frame of the selected stock.
merged_frame(stock, fs) ==
    LET df_m2    == loc(load_and_filter_csv(fs[FILE_M2], "time", "close"),
                        start_date, end_date)
        df_stock == loc(load_and_filter_csv(fs[STOCKS[stock]], "date", "close"),
                        start_date, end_date)
    IN  merge(rename(df_m2, "close", "close_m2"),
              rename(df_stock, "close", "close_stock"))

\* plot_data, the whole handler: merge, sweep, select, draw.  An exception
\* leaves the handler at the line that raises.
plot_data(stock, fs) ==
    LET df == merged_frame(stock, fs)
        c  == compute_lag_correlations(df, MAX_LAG)
        o  == select_optimal(c.value)
    IN  IF c.raised # None
        THEN [df |-> df, correlations |-> None, optimal_lag |-> None,
              optimal_corr |-> None, raised |-> c.raised]
        ELSE IF o.raised # None
        THEN [df |-> df, correlations |-> c.value, optimal_lag |-> None,
              optimal_corr |-> None, raised |-> o.raised]
        ELSE [df |-> df, correlations |-> c.value, optimal_lag |-> o.value.lag,
              optimal_corr |-> o.value.corr, raised |-> None]

\* One run of plot_data for a stock, as a step of the program.
Handle(stock) ==
    LET r == plot_data(stock, files)
    IN  /\ selected_stock' = stock
        /\ df_given' = r.df
        /\ df_merged' = r.df
        /\ max_lag' = MAX_LAG
        /\ correlations' = r.correlations
        /\ optimal_lag' = r.optimal_lag
        /\ optimal_corr' = r.optimal_corr
        /\ raised' = r.raised
        /\ pc' = IF r.raised = None THEN "event_loop" ELSE "crashed"
        /\ requests' = requests + 1
        /\ UNCHANGED <<files, latest_version, update_result>>

\* main(): MainWindow.__init__ sets the default stock and initUI ends with
\* plot_data(); an exception there leaves the constructor and ends the
\* process before the event loop starts.
Main ==
    /\ pc = "main"
    /\ Handle("Bitcoin (BTC)")

\* The two handlers of the running window; they need the event loop, which
\* main() reaches only when the constructor returns.
update_stock ==
    /\ pc = "event_loop"
    /\ requests < MaxRequests
    /\ \E stock \in DOMAIN STOCKS : Handle(stock)

refresh ==
    /\ pc = "event_loop"
    /\ requests < MaxRequests
    /\ Handle(selected_stock)

\* ------------------------------------------------------------ the updater
\* Text is a sequence of code points: "." is 46, "0".."9" are 48..57 and a
\* line feed is 10.  Python compares str values code point by code point.
RECURSIVE StrGT(_, _)
StrGT(a, b) ==
    IF a = <<>> THEN FALSE
    ELSE IF b = <<>> THEN TRUE
    ELSE IF Head(a) # Head(b) THEN Head(a) > Head(b)
    ELSE StrGT(Tail(a), Tail(b))

CURRENT_VERSION == <<49, 46, 48, 46, 48>>

\* str.strip() of the response text: only a trailing line feed occurs here.
RECURSIVE strip(_)
strip(t) ==
    IF t # <<>> /\ t[Len(t)] = 10 THEN strip(SubSeq(t, 1, Len(t) - 1))
    ELSE IF t # <<>> /\ Head(t) = 10 THEN strip(Tail(t))
    ELSE t

\* check_for_updates, with download_update and restart_app: the fetch or the
\* download may fail (the except branches); a finished download restarts
\* the program and sys.exit() ends this process.
CheckForUpdates ==
    /\ pc = "import"
    /\ \E fetched \in BOOLEAN, saved \in BOOLEAN :
          IF ~fetched
          THEN /\ latest_version' = None
               /\ update_result' = "check_error"
               /\ pc' = "main"
          ELSE /\ latest_version' = strip(files["version.txt"])
               /\ IF StrGT(latest_version', CURRENT_VERSION)
                  THEN IF saved
                       THEN update_result' = "restarted" /\ pc' = "exited"
                       ELSE update_result' = "update_failed" /\ pc' = "main"
                  ELSE update_result' = "up_to_date" /\ pc' = "main"
    /\ UNCHANGED <<files, selected_stock, df_given, df_merged, max_lag,
                   correlations, optimal_lag, optimal_corr, raised, requests>>

\* ------------------------------------------------------------- the inputs
Dates == 0..MaxDate
Row(date_col, d, v) == [c \in {date_col, "close"} |-> IF c = date_col THEN d ELSE v]
CsvFiles(date_col, cells) ==
    UNION {{{Row(date_col, d, f[d]) : d \in ds} : f \in [ds -> cells]} :
              ds \in SUBSET Dates}

Digits == {48, 49}
Components == UNION {[1..n -> Digits] : n \in 1..MaxDigits}
RECURSIVE Join(_)
Join(comps) ==
    IF Len(comps) = 1 THEN comps[1]
    ELSE comps[1] \o <<46>> \o Join(Tail(comps))
VersionTexts(maxComponents) ==
    {Join(cs) : cs \in UNION {[1..n -> Components] : n \in 1..maxComponents}}
ResponseTexts(maxComponents) ==
    LET texts == VersionTexts(maxComponents)
    IN  texts \cup {v \o <<10>> : v \in texts}

\* ------------------------------------------------------------ the program
\* The script from import to the end of main(): the update check, then the
\* construction of the window.
InitProgram(texts, m2s, stocks) ==
    /\ pc = "import"
    /\ \E t \in texts, m \in m2s, b \in stocks :
          files = [n \in {"version.txt", FILE_M2} \cup {STOCKS[k] : k \in DOMAIN STOCKS} |->
                     CASE n = "version.txt" -> t
                       [] n = FILE_M2 -> m
                       [] n = "BTC.csv" -> b
                       [] OTHER -> {}]
    /\ latest_version = None
    /\ update_result = None
    /\ selected_stock = None
    /\ df_given = None
    /\ df_merged = None
    /\ max_lag = None
    /\ correlations = None
    /\ optimal_lag = None
    /\ optimal_corr = None
    /\ raised = None
    /\ requests = 0

\* Every pair of money-supply and Bitcoin files, the remote version being the
\* local one; the files of the other stocks are not read before main() ends.
Init ==
    InitProgram({CURRENT_VERSION \o <<10>>},
                CsvFiles("time", Cells), CsvFiles("date", Cells))

Next == CheckForUpdates \/ Main

Spec == Init /\ [][Next]_vars

\* The program with the handlers of the window.
NextWindow == Next \/ update_stock \/ refresh

SpecWindow == Init /\ [][NextWindow]_vars

\* Every remote version text, the data files being empty.
InitUpdate == InitProgram(ResponseTexts(MaxComponents), {{}}, {{}})

SpecUpdate == InitUpdate /\ [][Next]_vars

\* ------------------------------------------------- the analyzer by itself
\* compute_lag_correlations and the selection of lines 140-141 applied to
\* frames that carry the two columns the sweep reads.
Columns(n, cells) == [1..n -> cells]
Lags == (0 - 1)..MaxLag

InitRequest(fs, df, lags) ==
    /\ pc = "merged"
    /\ files = fs
    /\ latest_version = None
    /\ update_result = None
    /\ selected_stock = None
    /\ df_given = df
    /\ df_merged = df
    /\ max_lag \in lags
    /\ correlations = None
    /\ optimal_lag = None
    /\ optimal_corr = None
    /\ raised = None
    /\ requests = 1

\* Every frame of up to maxLen rows over the cells, with both columns.
InitFrames(maxLen, cells, lags) ==
    \E n \in 0..maxLen :
        \E m2 \in Columns(n, cells), btc \in Columns(n, cells) :
            InitRequest(None, Frame([i \in 1..n |-> i], m2, btc, "close_btc"), lags)

InitAnalyzer == InitFrames(MaxLen, Cells, Lags)

NextAnalyzer == Call \/ Select \/ Again

SpecAnalyzer == InitAnalyzer /\ [][NextAnalyzer]_vars

\* The same with frames of up to MaxSelectLen rows, one request each.
InitSelect == InitFrames(MaxSelectLen, Cells, Lags)

NextSelect == Call \/ Select

SpecSelect == InitSelect /\ [][NextSelect]_vars

\* Frames built by a caller from two loaded series whose dates may differ,
\* merged as plot_data merges them, under the column names the sweep reads.
joined_frame(fs) ==
    merge(rename(load_and_filter_csv(fs[FILE_M2], "time", "close"),
                 "close", "close_m2"),
          rename(load_and_filter_csv(fs["BTC.csv"], "date", "close"),
                 "close", "close_btc"))

InitJoin ==
    \E m \in CsvFiles("time", Cells), b \in CsvFiles("date", Cells) :
        LET fs == [n \in {FILE_M2, "BTC.csv"} |-> IF n = FILE_M2 THEN m ELSE b]
        IN  InitRequest(fs, joined_frame(fs), 1..MaxLag)

SpecJoin == InitJoin /\ [][NextSelect]_vars

\* Frames without missing cells in which the asset column, three rows later,
\* is the money-supply column times a positive factor; the first three asset
\* cells are free.
ShiftValues == {1, 2, 3}
Scales == {1, 2}
InitShift ==
    \E n \in 0..MaxShiftLen :
        \E a \in [1..n -> ShiftValues],
           b \in [1..(IF n < 3 THEN n ELSE 3) -> Values],
           s \in Scales :
            InitRequest(None,
                        Frame([i \in 1..n |-> i],
                              [i \in 1..n |-> Cell(a[i])],
                              [i \in 1..n |->
                                  Cell(IF i <= 3 THEN b[i] ELSE s * a[i - 3])],
                              "close_btc"),
                        3..(MaxLag + 1))

SpecShift == InitShift /\ [][NextSelect]_vars

\* ================================================================ claims
Returned == pc \in {"computed", "selected"} \/ (pc = "failed" /\ raised = "ValueError")
IsFinite(c) == c # NaN
One == <<1, 1, 1>>
SameCoef(a, b) == a = b

\* The rows of the frame that overlap at lag k: row i has a money-supply
\* value and row i + k has an asset value.
OverlapRows(df, k) ==
    {i \in 1..Len(df.index) :
        /\ i + k <= Len(df.index)
        /\ df.cols["close_m2"][i] # NaN
        /\ df.cols["close_btc"][i + k] # NaN}

\* C1: for L >= 1 the keys of the returned map are lags in 1..L, and a lag of
\* 1..L is missing exactly when no row overlaps at that lag.
C1_KeysAreLagsWithRows ==
    (Returned /\ max_lag >= 1) =>
        /\ Keys(correlations) \subseteq 1..max_lag
        /\ \A k \in 1..max_lag :
              (k \notin Keys(correlations)) <=> (OverlapRows(df_given, k) = {})

C1_Witness ==
    /\ pc = "computed"
    /\ max_lag >= 2
    /\ 1 \notin Keys(correlations)
    /\ 2 \in Keys(correlations)
    /\ Get(correlations, 2) = NaN

\* C2: when the map holds a finite coefficient, the selected lag has the
\* maximum finite coefficient of the map and is the smallest lag that has it.
C2_OptimalIsMaxFinite ==
    (pc = "selected" /\ \E i \in 1..Len(correlations) : IsFinite(correlations[i].corr)) =>
        /\ IsFinite(optimal_corr)
        /\ \A i \in 1..Len(correlations) : ~GT(correlations[i].corr, optimal_corr)
        /\ \A i \in 1..Len(correlations) :
              SameCoef(correlations[i].corr, optimal_corr)
                  => optimal_lag <= correlations[i].lag

\* C3: undefined coefficients stay in the map and are never selected: the
\* selected coefficient is finite when a finite one exists, and when every
\* entry is undefined no lag is selected and "no valid lag" is signalled.
C3_UndefinedNeverSelected ==
    (pc \in {"selected", "failed"} /\ correlations # <<>>) =>
        IF \E i \in 1..Len(correlations) : IsFinite(correlations[i].corr)
        THEN pc = "selected" /\ IsFinite(optimal_corr)
        ELSE pc = "failed" /\ raised = "NoValidLag"

\* C4: an empty map is answered with a "no valid lag" signal, not with the
\* error of a lookup or of max() over an empty sequence.
C4_EmptyMapSignalsNoValidLag ==
    (pc \in {"selected", "failed"} /\ max_lag >= 1 /\ correlations = <<>>) =>
        (pc = "failed" /\ raised = "NoValidLag")

\* C5: a maximum lag below 1 is answered with an "invalid range" signal; the
\* call does not return a map.
C5_InvalidRangeSignalled ==
    (pc # "merged" /\ max_lag < 1) => (pc = "failed" /\ raised = "InvalidRange")

\* At least two rows overlap at lag 3 and the money-supply values of those
\* rows are not all equal.
EnoughAtThree(df) ==
    \E i, j \in 1..(Len(df.index) - 3) :
        df.cols["close_m2"][i] # df.cols["close_m2"][j]

MinPerfectLag(entries) ==
    CHOOSE k \in Keys(entries) :
        /\ Get(entries, k) = One
        /\ \A j \in Keys(entries) : Get(entries, j) = One => k <= j

RECURSIVE Split(_, _, _)
Split(t, i, cur) ==
    IF i > Len(t) THEN <<cur>>
    ELSE IF t[i] = 46 THEN <<cur>> \o Split(t, i + 1, 0)
    ELSE Split(t, i + 1, 10 * cur + (t[i] - 48))
ParseVersion(t) == Split(t, 1, 0)

\* Component-wise order, left to right, a missing component counting as 0.
RECURSIVE VersionNewer(_, _)
VersionNewer(a, b) ==
    IF a = <<>> /\ b = <<>> THEN FALSE
    ELSE LET x == IF a = <<>> THEN 0 ELSE Head(a)
             y == IF b = <<>> THEN 0 ELSE Head(b)
         IN  IF x # y THEN x > y
             ELSE VersionNewer(IF a = <<>> THEN a ELSE Tail(a),
                               IF b = <<>> THEN b ELSE Tail(b))

DownloadStarted == update_result \in {"restarted", "update_failed"}

\* C8: the download starts exactly when the remote version is newer than
\* CURRENT_VERSION in the order of dotted version numbers.
C8_DownloadIffNewer ==
    (update_result \in {"restarted", "update_failed", "up_to_date"}) =>
        (DownloadStarted <=>
            VersionNewer(ParseVersion(latest_version), ParseVersion(CURRENT_VERSION)))

\* Shift the asset series by k of its own rows, then inner-join it with the
\* money-supply series on the date, dropping rows with a missing value.
ShiftThenJoinPairs(a, b, k) ==
    LET shifted == shift(b.cols["close"], -k)
    IN  {<<a.cols["close"][i], shifted[j]>> :
            <<i, j>> \in {p \in (1..Len(a.index)) \X (1..Len(b.index)) :
                            /\ a.index[p[1]] = b.index[p[2]]
                            /\ a.cols["close"][p[1]] # NaN
                            /\ shifted[p[2]] # NaN}}

PairSet(rows) == {rows[i] : i \in 1..Len(rows)}

\* C9: at every lag the rows the sweep correlates (join, then shift by rows)
\* are the rows of shifting the asset series first and joining afterwards.
C9_JoinThenShiftIsShiftThenJoin ==
    (pc = "computed") =>
        \A k \in 1..max_lag :
            PairSet(aligned_rows(df_merged, k)) =
                ShiftThenJoinPairs(load_and_filter_csv(files[FILE_M2], "time", "close"),
                                   load_and_filter_csv(files["BTC.csv"], "date", "close"),
                                   k)

\* C10: the frame plot_data builds has the columns the sweep reads, and a
\* request over at least two overlapping rows gets to the drawing step.
C10_RequestReachesRendering ==
    (pc \in {"event_loop", "crashed"} /\ Len(df_merged.index) >= 2) =>
        /\ HasColumn(df_merged, "close_m2")
        /\ HasColumn(df_merged, "close_btc")
        /\ raised = None
        /\ pc = "event_loop"

====
